---- MODULE Spec2Model ----
(***************************************************************************)
(* The metric registry of keras/metrics/__init__.py: the alias table       *)
(* ALL_OBJECTS_DICT built at import time, and the entry points get,        *)
(* serialize and deserialize.                                              *)
(*                                                                         *)
(* Python strings are sequences of one-character strings, so that          *)
(* to_snake_case and the comparison of keys work on the characters.        *)
(* Python values are records with a "kind" field.                          *)
(***************************************************************************)
EXTENDS Integers, Sequences, FiniteSets, TLC

VARIABLES pc, ALL_OBJECTS_DICT, last, prev

vars == <<pc, ALL_OBJECTS_DICT, last, prev>>

(***************************************************************************)
(* Characters and strings                                                  *)
(***************************************************************************)
UpperChars == <<"A","B","C","D","E","F","G","H","I","J","K","L","M","N","O","P","Q","R","S","T","U","V","W","X","Y","Z">>

LowerChars == <<"a","b","c","d","e","f","g","h","i","j","k","l","m","n","o","p","q","r","s","t","u","v","w","x","y","z">>

DigitChars == <<"0","1","2","3","4","5","6","7","8","9">>

Range(f) == {f[i] : i \in DOMAIN f}

IsUpper(c) == c \in Range(UpperChars)

IsLower(c) == c \in Range(LowerChars)

\* \w of Python's re: a letter, a digit or the underscore
IsWord(c) == IsUpper(c) \/ IsLower(c) \/ c \in Range(DigitChars) \/ c = "_"

\* str.lower() on one character
LowerChar(c) ==
    IF IsUpper(c) THEN LowerChars[CHOOSE i \in DOMAIN UpperChars : UpperChars[i] = c]
    ELSE c

lower(s) == [i \in DOMAIN s |-> LowerChar(s[i])]

(***************************************************************************)
(* The registered classes: ALL_OBJECTS, and __name__ of each               *)
(***************************************************************************)
ClassName == [
    Metric |-> <<"M","e","t","r","i","c">>,
    Mean |-> <<"M","e","a","n">>,
    Sum |-> <<"S","u","m">>,
    MeanMetricWrapper |-> <<"M","e","a","n","M","e","t","r","i","c","W","r","a","p","p","e","r">>,
    MeanSquaredError |-> <<"M","e","a","n","S","q","u","a","r","e","d","E","r","r","o","r">>,
    RootMeanSquaredError |-> <<"R","o","o","t","M","e","a","n","S","q","u","a","r","e","d","E","r","r","o","r">>,
    MeanAbsoluteError |-> <<"M","e","a","n","A","b","s","o","l","u","t","e","E","r","r","o","r">>,
    MeanAbsolutePercentageError |-> <<"M","e","a","n","A","b","s","o","l","u","t","e","P","e","r","c","e","n","t","a","g","e","E","r","r","o","r">>,
    MeanSquaredLogarithmicError |-> <<"M","e","a","n","S","q","u","a","r","e","d","L","o","g","a","r","i","t","h","m","i","c","E","r","r","o","r">>,
    CosineSimilarity |-> <<"C","o","s","i","n","e","S","i","m","i","l","a","r","i","t","y">>,
    LogCoshError |-> <<"L","o","g","C","o","s","h","E","r","r","o","r">>,
    R2Score |-> <<"R","2","S","c","o","r","e">>,
    AUC |-> <<"A","U","C">>,
    FalseNegatives |-> <<"F","a","l","s","e","N","e","g","a","t","i","v","e","s">>,
    FalsePositives |-> <<"F","a","l","s","e","P","o","s","i","t","i","v","e","s">>,
    Precision |-> <<"P","r","e","c","i","s","i","o","n">>,
    PrecisionAtRecall |-> <<"P","r","e","c","i","s","i","o","n","A","t","R","e","c","a","l","l">>,
    Recall |-> <<"R","e","c","a","l","l">>,
    RecallAtPrecision |-> <<"R","e","c","a","l","l","A","t","P","r","e","c","i","s","i","o","n">>,
    SensitivityAtSpecificity |-> <<"S","e","n","s","i","t","i","v","i","t","y","A","t","S","p","e","c","i","f","i","c","i","t","y">>,
    SpecificityAtSensitivity |-> <<"S","p","e","c","i","f","i","c","i","t","y","A","t","S","e","n","s","i","t","i","v","i","t","y">>,
    TrueNegatives |-> <<"T","r","u","e","N","e","g","a","t","i","v","e","s">>,
    TruePositives |-> <<"T","r","u","e","P","o","s","i","t","i","v","e","s">>,
    Hinge |-> <<"H","i","n","g","e">>,
    SquaredHinge |-> <<"S","q","u","a","r","e","d","H","i","n","g","e">>,
    CategoricalHinge |-> <<"C","a","t","e","g","o","r","i","c","a","l","H","i","n","g","e">>,
    KLDivergence |-> <<"K","L","D","i","v","e","r","g","e","n","c","e">>,
    Poisson |-> <<"P","o","i","s","s","o","n">>,
    BinaryCrossentropy |-> <<"B","i","n","a","r","y","C","r","o","s","s","e","n","t","r","o","p","y">>,
    CategoricalCrossentropy |-> <<"C","a","t","e","g","o","r","i","c","a","l","C","r","o","s","s","e","n","t","r","o","p","y">>,
    SparseCategoricalCrossentropy |-> <<"S","p","a","r","s","e","C","a","t","e","g","o","r","i","c","a","l","C","r","o","s","s","e","n","t","r","o","p","y">>,
    Accuracy |-> <<"A","c","c","u","r","a","c","y">>,
    BinaryAccuracy |-> <<"B","i","n","a","r","y","A","c","c","u","r","a","c","y">>,
    CategoricalAccuracy |-> <<"C","a","t","e","g","o","r","i","c","a","l","A","c","c","u","r","a","c","y">>,
    SparseCategoricalAccuracy |-> <<"S","p","a","r","s","e","C","a","t","e","g","o","r","i","c","a","l","A","c","c","u","r","a","c","y">>,
    TopKCategoricalAccuracy |-> <<"T","o","p","K","C","a","t","e","g","o","r","i","c","a","l","A","c","c","u","r","a","c","y">>,
    SparseTopKCategoricalAccuracy |-> <<"S","p","a","r","s","e","T","o","p","K","C","a","t","e","g","o","r","i","c","a","l","A","c","c","u","r","a","c","y">>,
    F1Score |-> <<"F","1","S","c","o","r","e">>,
    FBetaScore |-> <<"F","B","e","t","a","S","c","o","r","e">>,
    IoU |-> <<"I","o","U">>,
    BinaryIoU |-> <<"B","i","n","a","r","y","I","o","U">>,
    MeanIoU |-> <<"M","e","a","n","I","o","U">>,
    OneHotIoU |-> <<"O","n","e","H","o","t","I","o","U">>,
    OneHotMeanIoU |-> <<"O","n","e","H","o","t","M","e","a","n","I","o","U">>
]

ALL_OBJECTS == DOMAIN ClassName

(***************************************************************************)
(* keras.utils.naming.to_snake_case                                        *)
(***************************************************************************)
\* re.sub(r"\W+", "", name)
StripNonWord(s) == SelectSeq(s, IsWord)

\* the end of the run [a-z]+ that starts at position i
RECURSIVE LowerRunEnd(_, _)
LowerRunEnd(s, i) ==
    IF i + 1 <= Len(s) /\ IsLower(s[i + 1]) THEN LowerRunEnd(s, i + 1) ELSE i

\* re.sub("(.)([A-Z][a-z]+)", r"\1_\2", s), scanning from position i:
\* matches are found left to right and do not overlap
RECURSIVE SubWordBoundary(_, _)
SubWordBoundary(s, i) ==
    IF i > Len(s) THEN <<>>
    ELSE IF i + 2 <= Len(s) /\ IsUpper(s[i + 1]) /\ IsLower(s[i + 2])
         THEN LET e == LowerRunEnd(s, i + 2)
              IN  <<s[i], "_">> \o SubSeq(s, i + 1, e) \o SubWordBoundary(s, e + 1)
         ELSE <<s[i]>> \o SubWordBoundary(s, i + 1)

\* re.sub("([a-z])([A-Z])", r"\1_\2", s), scanning from position i
RECURSIVE SubCaseBoundary(_, _)
SubCaseBoundary(s, i) ==
    IF i > Len(s) THEN <<>>
    ELSE IF i + 1 <= Len(s) /\ IsLower(s[i]) /\ IsUpper(s[i + 1])
         THEN <<s[i], "_", s[i + 1]>> \o SubCaseBoundary(s, i + 2)
         ELSE <<s[i]>> \o SubCaseBoundary(s, i + 1)

to_snake_case(name) ==
    lower(SubCaseBoundary(SubWordBoundary(StripNonWord(name), 1), 1))

(***************************************************************************)
(* The alias table                                                         *)
(***************************************************************************)
\* dict.update(other): the keys of other overwrite those of d
Update(d, other) ==
    [k \in DOMAIN d \cup DOMAIN other |-> IF k \in DOMAIN other THEN other[k] ELSE d[k]]

NameOf(cls) == ClassName[cls]

SnakeNameOf(cls) == to_snake_case(ClassName[cls])

\* {cls.__name__: cls for cls in ALL_OBJECTS}
ClassNameDict ==
    [k \in {NameOf(cls) : cls \in ALL_OBJECTS} |->
        CHOOSE cls \in ALL_OBJECTS : NameOf(cls) = k]

\* {to_snake_case(cls.__name__): cls for cls in ALL_OBJECTS}
SnakeNameDict ==
    [k \in {SnakeNameOf(cls) : cls \in ALL_OBJECTS} |->
        CHOOSE cls \in ALL_OBJECTS : SnakeNameOf(cls) = k]

\* the ten hand-picked abbreviations, as <<key, class>> pairs
AbbreviationPairs ==
    {
       <<<<"b","c","e">>, "BinaryCrossentropy">>,
       <<<<"B","C","E">>, "BinaryCrossentropy">>,
       <<<<"m","s","e">>, "MeanSquaredError">>,
       <<<<"M","S","E">>, "MeanSquaredError">>,
       <<<<"m","a","e">>, "MeanAbsoluteError">>,
       <<<<"M","A","E">>, "MeanAbsoluteError">>,
       <<<<"m","a","p","e">>, "MeanAbsolutePercentageError">>,
       <<<<"M","A","P","E">>, "MeanAbsolutePercentageError">>,
       <<<<"m","s","l","e">>, "MeanSquaredLogarithmicError">>,
       <<<<"M","S","L","E">>, "MeanSquaredLogarithmicError">>
    }

\* the table of abbreviations with "mse" given the class of "mae"
AbbreviationsTypo ==
    [k \in {p[1] : p \in AbbreviationPairs} |->
        IF k = <<"m","s","e">> THEN "MeanAbsoluteError"
        ELSE (CHOOSE p \in AbbreviationPairs : p[1] = k)[2]]

Abbreviations ==
    [k \in {p[1] : p \in AbbreviationPairs} |->
        (CHOOSE p \in AbbreviationPairs : p[1] = k)[2]]

EmptyDict == [k \in {} |-> "Metric"]

(***************************************************************************)
(* Python values                                                           *)
(***************************************************************************)
NoneV == [kind |-> "None"]

Str(s) == [kind |-> "str", s |-> s]

\* a configuration dictionary; has_class_name says whether the key
\* "class_name" is present
Dict(has_class_name, class_name, config) ==
    [kind |-> "dict", has_class_name |-> has_class_name,
     class_name |-> class_name, config |-> config]

Class(cls) == [kind |-> "class", cls |-> cls]

Function(name) == [kind |-> "function", name |-> name]

\* an object of class cls; id is its identity
Instance(cls, id, config) == [kind |-> "instance", cls |-> cls, id |-> id, config |-> config]

IntV(n) == [kind |-> "int", v |-> n]

\* Classes a caller can pass that are not registered: a Metric subclass with
\* a no-argument constructor, a Metric subclass whose constructor has a
\* required parameter, and the builtins object, int and str.
UserClassName == [
    UserMetric |-> <<"U","s","e","r","M","e","t","r","i","c">>,
    UserMetricWithArgs |-> <<"U","s","e","r","M","e","t","r","i","c","W","i","t","h","A","r","g","s">>,
    object |-> <<"o","b","j","e","c","t">>,
    int |-> <<"i","n","t">>,
    str |-> <<"s","t","r">>
]

UserClasses == DOMAIN UserClassName

MetricClasses == ALL_OBJECTS \cup {"UserMetric", "UserMetricWithArgs"}

TypeName(cls) == IF cls \in ALL_OBJECTS THEN ClassName[cls] ELSE UserClassName[cls]

(***************************************************************************)
(* Outcomes of a call: a returned value or a raised error                  *)
(***************************************************************************)
NoError == [type |-> "none", origin |-> "none", names |-> NoneV]

Error(type, origin, names) == [type |-> type, origin |-> origin, names |-> names]

Returned(v) == [status |-> "returned", value |-> v, error |-> NoError]

Raised(e) == [status |-> "raised", value |-> NoneV, error |-> e]

\* ValueError(f"Could not interpret metric identifier: {identifier}")
CouldNotInterpret(identifier) == Error("ValueError", "get", identifier)

(***************************************************************************)
(* The builtins callable, inspect.isclass and the call obj()               *)
(***************************************************************************)
\* classes and functions are callable; an instance is callable when its
\* class defines __call__, as Metric does and object does not
callable(obj) ==
    \/ obj.kind \in {"class", "function"}
    \/ obj.kind = "instance" /\ obj.cls \in MetricClasses

isclass(obj) == obj.kind = "class"

\* cls() for a registered class: an instance with the default configuration
RegisteredNoArgCall(cls, fresh) == Returned(Instance(cls, fresh, "default"))

\* cls() for a class passed by the caller
UserNoArgCall(cls, fresh) ==
    CASE cls = "UserMetric" -> Returned(Instance(cls, fresh, "default"))
      [] cls = "UserMetricWithArgs" -> Raised(Error("TypeError", "constructor", Class(cls)))
      [] cls = "object" -> Returned(Instance(cls, fresh, "default"))
      [] cls = "int" -> Returned(IntV(0))
      [] cls = "str" -> Returned(Str(<<>>))

\* a constructor call that hands out one cached object per class
InstantiateCached(cls, fresh) ==
    IF cls \in ALL_OBJECTS THEN RegisteredNoArgCall(cls, 0)
    ELSE UserNoArgCall(cls, 0)

\* obj = obj()
Instantiate(cls, fresh) ==
    IF cls \in ALL_OBJECTS THEN RegisteredNoArgCall(cls, fresh)
    ELSE UserNoArgCall(cls, fresh)

(***************************************************************************)
(* serialization_lib, as far as the registry's calls need it: the class    *)
(* named by a configuration is looked up and built, and a configuration    *)
(* that names no known class is an error.                                  *)
(***************************************************************************)
NoCustomObjects == [given |-> FALSE, map |-> EmptyDict]

CustomObjects(map) == [given |-> TRUE, map |-> map]

\* serialization_lib.serialize_keras_object(metric)
serialize_keras_object(metric) ==
    CASE metric.kind = "instance" /\ metric.cls \in MetricClasses ->
            Returned(Dict(TRUE, TypeName(metric.cls), metric.config))
      [] metric.kind = "function" ->
            Returned(Dict(TRUE, <<"f","u","n","c","t","i","o","n">>, metric.name))
      [] OTHER -> Raised(Error("TypeError", "serialize_keras_object", metric))

\* serialization_lib.deserialize_keras_object(config, module_objects,
\* custom_objects): the class named by config is looked up in custom_objects,
\* then in module_objects, and built from config
deserialize_keras_object(config, module_objects, custom_objects, fresh) ==
    IF config.kind # "dict" \/ ~config.has_class_name
    THEN Raised(Error("ValueError", "deserialize_keras_object", config))
    ELSE LET n == config.class_name
             custom == custom_objects.given /\ n \in DOMAIN custom_objects.map
         IN  IF custom
             THEN Returned(Instance(custom_objects.map[n], fresh, config.config))
             ELSE IF n \in DOMAIN module_objects
             THEN Returned(Instance(module_objects[n], fresh, config.config))
             ELSE Raised(Error("ValueError", "deserialize_keras_object", config))

(***************************************************************************)
(* serialize, deserialize and get                                          *)
(*                                                                         *)
(* Each takes the module's table beside its arguments and gives, beside    *)
(* its outcome, the table as the call leaves it.  fresh is the identity    *)
(* of the next object to be constructed.                                   *)
(***************************************************************************)
\* the record of a call of deserialize_keras_object; module_objects is the
\* name of the dictionary that is passed
NoDeser ==
    [called |-> FALSE, config |-> NoneV, module_objects |-> "none",
     custom_objects |-> NoCustomObjects]

DeserCall(config, module_objects, custom_objects) ==
    [called |-> TRUE, config |-> config, module_objects |-> module_objects,
     custom_objects |-> custom_objects]

serialize(metric, table) ==
    [route |-> "serialize", lookups |-> 0, deser |-> NoDeser, resolved |-> FALSE,
     obj |-> NoneV, constructed |-> FALSE,
     outcome |-> serialize_keras_object(metric), table |-> table]

\* deserialize that merges custom_objects into the module's table
deserialize_merging(config, custom_objects, table, fresh) ==
    LET merged == Update(table, custom_objects.map)
    IN  [route |-> "deserialize", lookups |-> 0,
         deser |-> DeserCall(config, "ALL_OBJECTS_DICT", NoCustomObjects),
         resolved |-> FALSE,
         obj |-> NoneV, constructed |-> FALSE,
         outcome |-> deserialize_keras_object(config, merged, NoCustomObjects, fresh),
         table |-> merged]

deserialize(config, custom_objects, table, fresh) ==
    [route |-> "deserialize", lookups |-> 0,
     deser |-> DeserCall(config, "ALL_OBJECTS_DICT", custom_objects),
     resolved |-> FALSE,
     obj |-> NoneV, constructed |-> FALSE,
     outcome |-> deserialize_keras_object(config, table, custom_objects, fresh),
     table |-> table]

\* a lookup that ignores the case of the key
DictGetCaseInsensitive(table, key) ==
    IF \E k \in DOMAIN table : lower(k) = lower(key)
    THEN Class(table[CHOOSE k \in DOMAIN table : lower(k) = lower(key)])
    ELSE NoneV

\* ALL_OBJECTS_DICT.get(key, None)
DictGet(table, key) == IF key \in DOMAIN table THEN Class(table[key]) ELSE NoneV

\* a dispatch that looks a dictionary's class_name up in the table itself
ResolveDictByName(identifier, table, fresh) ==
    CASE identifier.kind \in {"dict", "str"} ->
            [route |-> "lookup", lookups |-> 1, deser |-> NoDeser, resolved |-> FALSE,
             obj |-> NoneV, constructed |-> FALSE,
             outcome |-> Returned(DictGet(table,
                            IF identifier.kind = "dict" THEN identifier.class_name
                            ELSE identifier.s)),
             table |-> table]
      [] OTHER ->
            [route |-> "as_is", lookups |-> 0, deser |-> NoDeser, resolved |-> FALSE,
             obj |-> NoneV, constructed |-> FALSE,
             outcome |-> Returned(identifier), table |-> table]

\* lines 193-198: the object an identifier other than None resolves to
Resolve(identifier, table, fresh) ==
    CASE identifier.kind = "dict" ->
            deserialize(identifier, NoCustomObjects, table, fresh)
      [] identifier.kind = "str" ->
            [route |-> "lookup", lookups |-> 1, deser |-> NoDeser, resolved |-> FALSE,
             obj |-> NoneV, constructed |-> FALSE,
             outcome |-> Returned(DictGet(table, identifier.s)), table |-> table]
      [] OTHER ->
            [route |-> "as_is", lookups |-> 0, deser |-> NoDeser, resolved |-> FALSE,
             obj |-> NoneV, constructed |-> FALSE,
             outcome |-> Returned(identifier), table |-> table]

\* get without the call obj(): a resolved class is returned as it is
FinishNoInstantiate(identifier, obj, fresh) ==
    IF callable(obj)
    THEN [constructed |-> FALSE, outcome |-> Returned(obj)]
    ELSE [constructed |-> FALSE, outcome |-> Raised(CouldNotInterpret(identifier))]

\* get with obj() wrapped: an error of the constructor becomes the lookup error
FinishWrapErrors(identifier, obj, fresh) ==
    IF callable(obj)
    THEN IF isclass(obj)
         THEN [constructed |-> TRUE,
               outcome |-> IF Instantiate(obj.cls, fresh).status = "raised"
                           THEN Raised(CouldNotInterpret(identifier))
                           ELSE Instantiate(obj.cls, fresh)]
         ELSE [constructed |-> FALSE, outcome |-> Returned(obj)]
    ELSE [constructed |-> FALSE, outcome |-> Raised(CouldNotInterpret(identifier))]

\* lines 199-204: what get does with the resolved object
Finish(identifier, obj, fresh) ==
    IF callable(obj)
    THEN IF isclass(obj)
         THEN [constructed |-> TRUE, outcome |-> Instantiate(obj.cls, fresh)]
         ELSE [constructed |-> FALSE, outcome |-> Returned(obj)]
    ELSE [constructed |-> FALSE, outcome |-> Raised(CouldNotInterpret(identifier))]

\* get without the test for None: None is taken as it is
getWithoutNoneCheck(identifier, table, fresh) ==
    LET r == Resolve(identifier, table, fresh)
    IN  IF r.outcome.status = "raised"
        THEN r
        ELSE LET obj == r.outcome.value
                 f == Finish(identifier, obj, fresh)
             IN  [r EXCEPT !.resolved = TRUE, !.obj = obj,
                           !.constructed = f.constructed,
                           !.outcome = f.outcome]

get(identifier, table, fresh) ==
    IF identifier.kind = "None"
    THEN [route |-> "none", lookups |-> 0, deser |-> NoDeser, resolved |-> FALSE,
          obj |-> NoneV, constructed |-> FALSE,
          outcome |-> Returned(NoneV), table |-> table]
    ELSE LET r == Resolve(identifier, table, fresh)
         IN  IF r.outcome.status = "raised"
             THEN r
             ELSE LET obj == r.outcome.value
                      f == Finish(identifier, obj, fresh)
                  IN  [r EXCEPT !.resolved = TRUE, !.obj = obj,
                                !.constructed = f.constructed,
                                !.outcome = f.outcome]

(***************************************************************************)
(* The state: the import's position, the table, and the last two calls     *)
(***************************************************************************)
\* the number of metric objects the caller holds before any call
MaxInstances == 2

\* the classes of the caller's objects
InstanceClasses == <<"MeanSquaredError", "object", "UserMetric">>

InstanceClass(i) == InstanceClasses[((i - 1) % Len(InstanceClasses)) + 1]

InputInstances == {Instance(InstanceClass(i), i, "default") : i \in 1..MaxInstances}

UnknownStrings == {
    <<"M","s","e">>,
    <<"m","S","E">>,
    <<"u","n","k","n","o","w","n">>,
    <<>>,
    <<"M","E","A","N","_","S","Q","U","A","R","E","D","_","E","R","R","O","R">>,
    <<"m","e","a","n","s","q","u","a","r","e","d","e","r","r","o","r">>,
    <<"C","a","t","e","g","o","r","i","c","a","l","_","C","r","o","s","s","e","n","t","r","o","p","y">>,
    <<"i","o","u">>
}

DictIdentifiers ==
    {Dict(TRUE, n, "from_logits") :
        n \in {<<"C","a","t","e","g","o","r","i","c","a","l","C","r","o","s","s","e","n","t","r","o","p","y">>,
               <<"m","s","e">>,
               <<"U","s","e","r","M","e","t","r","i","c">>,
               <<"f","u","n","c","t","i","o","n">>}}
    \cup {Dict(FALSE, <<>>, "from_logits")}

ClassIdentifiers == {Class(c) : c \in {"Metric", "MeanSquaredError"} \cup UserClasses}

FunctionIdentifiers == {Function("categorical_crossentropy"), Function("user_fn")}

CustomObjectTables ==
    {NoCustomObjects,
     CustomObjects((<<"U","s","e","r","M","e","t","r","i","c">> :> "UserMetric")),
     CustomObjects((<<"m","s","e">> :> "UserMetricWithArgs"))}

NoCall ==
    [op |-> "none", identifier |-> NoneV, custom_objects |-> NoCustomObjects,
     route |-> "none", lookups |-> 0, deser |-> NoDeser, resolved |-> FALSE,
     obj |-> NoneV, constructed |-> FALSE, outcome |-> Returned(NoneV)]

\* the record of a call: its arguments and what the function did
CallRecord(op, identifier, custom_objects, r) ==
    [op |-> op, identifier |-> identifier, custom_objects |-> custom_objects,
     route |-> r.route, lookups |-> r.lookups, deser |-> r.deser,
     resolved |-> r.resolved, obj |-> r.obj, constructed |-> r.constructed,
     outcome |-> r.outcome]

\* what is kept of a call once another follows it
Summary(call) == [op |-> call.op, identifier |-> call.identifier, outcome |-> call.outcome]

\* the value the last call returned, which the caller can pass on
LastValue == IF last.op # "none" /\ last.outcome.status = "returned"
             THEN {last.outcome.value} ELSE {}

\* The call before the last is kept when the last call repeats its argument
\* or takes the value it returned; of other pairs of calls nothing is kept.
Before(arg) ==
    IF last.op # "none" /\ (arg = last.identifier \/ arg \in LastValue)
    THEN Summary(last) ELSE Summary(NoCall)

IdsOf(v) == IF v.kind = "instance" THEN {v.id} ELSE {}

\* the identity of the next object: one that no object the caller holds has
Fresh ==
    LET live == (1..MaxInstances) \cup IdsOf(last.identifier) \cup IdsOf(last.outcome.value)
    IN  CHOOSE n \in 1..(MaxInstances + 3) : n \notin live /\ \A m \in 1..(n - 1) : m \in live

Identifiers ==
    {NoneV, IntV(42)}
    \cup {Str(s) : s \in DOMAIN ALL_OBJECTS_DICT \cup UnknownStrings}
    \cup DictIdentifiers \cup ClassIdentifiers \cup FunctionIdentifiers
    \cup InputInstances \cup LastValue

Init ==
    /\ pc = "import"
    /\ ALL_OBJECTS_DICT = EmptyDict
    /\ last = NoCall
    /\ prev = Summary(NoCall)

\* line 105
LoadClassNames ==
    /\ pc = "import"
    /\ ALL_OBJECTS_DICT' = ClassNameDict
    /\ pc' = "class_names"
    /\ UNCHANGED <<last, prev>>

\* lines 106-108
LoadSnakeNames ==
    /\ pc = "class_names"
    /\ ALL_OBJECTS_DICT' = Update(ALL_OBJECTS_DICT, SnakeNameDict)
    /\ pc' = "snake_names"
    /\ UNCHANGED <<last, prev>>

\* lines 111-124
LoadAbbreviations ==
    /\ pc = "snake_names"
    /\ ALL_OBJECTS_DICT' = Update(ALL_OBJECTS_DICT, Abbreviations)
    /\ pc' = "loaded"
    /\ UNCHANGED <<last, prev>>

Serialize ==
    /\ pc = "loaded"
    /\ \E metric \in InputInstances \cup FunctionIdentifiers \cup LastValue :
          LET r == serialize(metric, ALL_OBJECTS_DICT)
          IN  /\ last' = CallRecord("serialize", metric, NoCustomObjects, r)
              /\ ALL_OBJECTS_DICT' = r.table
              /\ prev' = Before(metric)
    /\ UNCHANGED pc

Deserialize ==
    /\ pc = "loaded"
    /\ \E config \in DictIdentifiers \cup {v \in LastValue : v.kind = "dict"},
          custom_objects \in CustomObjectTables :
          LET r == deserialize(config, custom_objects, ALL_OBJECTS_DICT, Fresh)
          IN  /\ last' = CallRecord("deserialize", config, custom_objects, r)
              /\ ALL_OBJECTS_DICT' = r.table
              /\ prev' = Before(config)
    /\ UNCHANGED pc

Get ==
    /\ pc = "loaded"
    /\ \E identifier \in Identifiers :
          LET r == get(identifier, ALL_OBJECTS_DICT, Fresh)
          IN  /\ last' = CallRecord("get", identifier, NoCustomObjects, r)
              /\ ALL_OBJECTS_DICT' = r.table
              /\ prev' = Before(identifier)
    /\ UNCHANGED pc

Next ==
    \/ LoadClassNames
    \/ LoadSnakeNames
    \/ LoadAbbreviations
    \/ Get
    \/ Serialize
    \/ Deserialize

Spec == Init /\ [][Next]_vars

(***************************************************************************)
(* Properties                                                              *)
(***************************************************************************)
\* str.upper() on one character, and on a string
UpperChar(c) ==
    IF IsLower(c) THEN UpperChars[CHOOSE i \in DOMAIN LowerChars : LowerChars[i] = c]
    ELSE c

upper(s) == [i \in DOMAIN s |-> UpperChar(s[i])]

GetCalled == pc = "loaded" /\ last.op = "get"

GetOfKnownKey ==
    GetCalled /\ last.identifier.kind = "str" /\ last.identifier.s \in DOMAIN ALL_OBJECTS_DICT

GetOfUnknownString ==
    GetCalled /\ last.identifier.kind = "str" /\ last.identifier.s \notin DOMAIN ALL_OBJECTS_DICT

\* C2: get(s) for a string s that is not a key of the table raises the lookup
\* error naming s, and returns nothing; case variants that are not keys
\* ("Mse") are unknown strings too.
C2_UnknownStringRaises ==
    GetOfUnknownString =>
        /\ last.outcome.status = "raised"
        /\ last.outcome.error = CouldNotInterpret(last.identifier)
        /\ last.outcome.error.names.s = last.identifier.s

C2_Witness ==
    /\ GetOfUnknownString
    /\ last.identifier.s = <<"M","s","e">>
    /\ last.outcome.status = "raised"
    /\ last.outcome.error.type = "ValueError"

\* C3, as stated: every failing call of get fails with the lookup error, and
\* get fails exactly when the resolved object is not callable.
C3_SingleErrorKind ==
    GetCalled =>
        /\ last.outcome.status = "raised" => last.outcome.error = CouldNotInterpret(last.identifier)
        /\ last.outcome.status = "raised" <=> (last.resolved /\ ~callable(last.obj))

\* C3, amended: the lookup error is the only error get itself raises, and get
\* raises it exactly when an object was resolved and is not callable; a call
\* also fails, with another error, when the no-argument constructor of the
\* resolved class raises or when deserializing a dictionary identifier
\* raises, and those errors reach the caller unchanged.
C3_OwnErrorOnly ==
    GetCalled =>
        /\ (last.outcome.status = "raised" /\ last.outcome.error.origin = "get")
              <=> (last.resolved /\ ~callable(last.obj))
        /\ (last.outcome.status = "raised" /\ last.outcome.error.origin = "get")
              => last.outcome.error = CouldNotInterpret(last.identifier)
        /\ (last.outcome.status = "raised" /\ last.outcome.error.origin # "get")
              => \/ /\ last.outcome.error.origin = "constructor"
                    /\ last.resolved /\ isclass(last.obj) /\ last.constructed
                    /\ last.outcome = Instantiate(last.obj.cls, 0)
                 \/ /\ last.outcome.error.origin = "deserialize_keras_object"
                    /\ last.identifier.kind = "dict" /\ ~last.resolved
                    /\ last.outcome.error.names = last.identifier

C3_Witness ==
    /\ GetCalled
    /\ last.identifier = Class("UserMetricWithArgs")
    /\ last.outcome.status = "raised"
    /\ last.outcome.error.type = "TypeError"
    /\ last.outcome.error.origin = "constructor"

\* C4: get(None) returns None, with no lookup in the table, no
\* deserialization and no error.
C4_NonePassesThrough ==
    (GetCalled /\ last.identifier = NoneV) =>
        /\ last.outcome = Returned(NoneV)
        /\ last.lookups = 0
        /\ ~last.deser.called
        /\ ~last.resolved
        /\ ~last.constructed

C4_Witness ==
    GetCalled /\ last.identifier = NoneV /\ last.outcome.status = "returned"

\* C5: once the import has finished, no call of get, serialize or deserialize
\* changes ALL_OBJECTS_DICT; custom_objects are not merged into it.
C5_TableReadOnly ==
    [][pc = "loaded" => ALL_OBJECTS_DICT' = ALL_OBJECTS_DICT]_vars

C5_Witness ==
    /\ pc = "loaded"
    /\ last.op = "deserialize"
    /\ last.custom_objects.given
    /\ last.identifier.class_name \in DOMAIN last.custom_objects.map
    /\ last.outcome.status = "returned"
    /\ last.identifier.class_name \in DOMAIN ALL_OBJECTS_DICT
    /\ last.outcome.value.cls # ALL_OBJECTS_DICT[last.identifier.class_name]

\* C6: get("categorical_crossentropy") returns a function and
\* get("CategoricalCrossentropy") an instance of the class, as the docstring
\* of get says.
C6_SnakeCaseGivesFunction ==
    /\ (GetCalled /\ last.identifier = Str(<<"c","a","t","e","g","o","r","i","c","a","l","_","c","r","o","s","s","e","n","t","r","o","p","y">>))
          => (last.outcome.status = "returned" /\ last.outcome.value.kind = "function")
    /\ (GetCalled /\ last.identifier = Str(<<"C","a","t","e","g","o","r","i","c","a","l","C","r","o","s","s","e","n","t","r","o","p","y">>))
          => /\ last.outcome.status = "returned"
             /\ last.outcome.value.kind = "instance"
             /\ last.outcome.value.cls = "CategoricalCrossentropy"

\* C8: get resolves a dictionary only through deserialize, with the table
\* as module_objects and no custom_objects, and never looks it up; an
\* identifier that is not None, a dictionary or a string is the resolved
\* object itself, and the table is not consulted.
C8_Dispatch ==
    GetCalled =>
        /\ last.identifier.kind = "dict" =>
              /\ last.route = "deserialize"
              /\ last.lookups = 0
              /\ last.deser = DeserCall(last.identifier, "ALL_OBJECTS_DICT", NoCustomObjects)
              /\ ~last.constructed
              /\ \E n \in 1..(MaxInstances + 3) :
                    LET d == deserialize_keras_object(last.identifier, ALL_OBJECTS_DICT,
                                                      NoCustomObjects, n)
                    IN  IF d.status = "raised" THEN last.outcome = d
                        ELSE last.resolved /\ last.obj = d.value
        /\ last.identifier.kind \notin {"None", "dict", "str"} =>
              /\ last.route = "as_is"
              /\ last.lookups = 0
              /\ ~last.deser.called
              /\ last.resolved
              /\ last.obj = last.identifier

C8_Witness ==
    /\ GetCalled
    /\ last.identifier.kind = "dict"
    /\ last.identifier.class_name = <<"m","s","e">>
    /\ last.deser.called
    /\ last.outcome.status = "returned"
    /\ last.outcome.value.cls = "MeanSquaredError"

LowerAbbreviations == {
    <<"b","c","e">>,
    <<"m","s","e">>,
    <<"m","a","e">>,
    <<"m","a","p","e">>,
    <<"m","s","l","e">>
}

\* C9: when the import has finished, every class of ALL_OBJECTS is the value
\* under its class name and under its snake_case name, every value of the
\* table is a class of ALL_OBJECTS, and each lowercase abbreviation has the
\* class of its uppercase spelling.
C9_TableConstruction ==
    pc = "loaded" =>
        /\ \A cls \in ALL_OBJECTS :
              /\ NameOf(cls) \in DOMAIN ALL_OBJECTS_DICT
              /\ ALL_OBJECTS_DICT[NameOf(cls)] = cls
              /\ SnakeNameOf(cls) \in DOMAIN ALL_OBJECTS_DICT
              /\ ALL_OBJECTS_DICT[SnakeNameOf(cls)] = cls
        /\ \A k \in DOMAIN ALL_OBJECTS_DICT : ALL_OBJECTS_DICT[k] \in ALL_OBJECTS
        /\ \A a \in LowerAbbreviations :
              /\ a \in DOMAIN ALL_OBJECTS_DICT
              /\ upper(a) \in DOMAIN ALL_OBJECTS_DICT
              /\ ALL_OBJECTS_DICT[a] = ALL_OBJECTS_DICT[upper(a)]

C9_Witness ==
    /\ pc = "loaded"
    /\ Cardinality(DOMAIN ALL_OBJECTS_DICT) = 2 * Cardinality(ALL_OBJECTS) + 10
    /\ ALL_OBJECTS_DICT[<<"m","s","e">>] = "MeanSquaredError"
    /\ ALL_OBJECTS_DICT[<<"o","n","e","_","h","o","t","_","m","e","a","n","_","i","o","_","u">>] = "OneHotMeanIoU"

\* the last call is get of the value the call before, a get, returned
GetOfGetResult ==
    /\ GetCalled
    /\ prev.op = "get"
    /\ prev.outcome.status = "returned"
    /\ prev.outcome.value # NoneV
    /\ last.identifier = prev.outcome.value

\* the last two calls are get of the same string key
GetOfSameKeyTwice ==
    /\ GetOfKnownKey
    /\ prev.op = "get"
    /\ prev.identifier = last.identifier

NonClassReturnedAsIs ==
    (GetCalled /\ last.resolved /\ callable(last.obj) /\ ~isclass(last.obj)) =>
        /\ last.outcome = Returned(last.obj)
        /\ ~last.constructed

SameKeyTwiceGivesTwoInstances ==
    (GetOfSameKeyTwice /\ prev.outcome.status = "returned"
        /\ last.outcome.status = "returned") =>
        /\ last.constructed
        /\ prev.outcome.value.kind = "instance"
        /\ last.outcome.value.kind = "instance"
        /\ last.outcome.value.cls = prev.outcome.value.cls
        /\ last.outcome.value.id # prev.outcome.value.id

====
